---- MODULE Spec2Model ----
(***************************************************************************)
(* Reward-schedule update of the CLMM pool program: the set_reward_params  *)
(* instruction (programs/amm/src/instructions/set_reward_params.rs), the   *)
(* operation-owner allow-list it consults (states/operation_account.rs)    *)
(* and the funding transfer it ends with (util/token.rs).                  *)
(*                                                                         *)
(* Identities (Pubkey) are naturals, 0 being Pubkey::default().  Time is   *)
(* in abstract seconds.  Rates are fixed-point numbers with FracBits       *)
(* fractional bits (64 in the program), token amounts are unsigned         *)
(* integers no larger than U64_MAX (2^64 - 1 in the program).              *)
(***************************************************************************)
EXTENDS Integers, Sequences, FiniteSets, TLC

VARIABLES
    now,               \* Clock::get()?.unix_timestamp
    reward_infos,      \* PoolState.reward_infos, indexed 0 .. REWARD_NUM-1
    owner,             \* PoolState.owner
    operation_owners,  \* OperationState.operation_owners, a padded array
    last               \* the last instruction that took effect: its request and outcome

vars == <<now, reward_infos, owner, operation_owners, last>>

---------------------------------------------------------------------------
(* Bounds of the model *)

\* the clock runs over 0 .. MaxNow
MaxNow == 4
\* a requested end_time ranges over 0 .. MaxTime
MaxTime == 8
\* a requested open_time ranges over now .. now + MaxAhead
MaxAhead == 1
\* requested emissions_per_second_x64 ranges over 0 .. MaxRate
MaxRate == 2
\* number of fractional bits of a rate (64 in the program)
FracBits == 1
\* largest token amount (2^64 - 1 in the program)
U64_MAX == 4
\* the identities passed to the allow-list operations range over 0 .. MaxKey
MaxKey == 11
\* in SpecAhead a requested open_time ranges over now .. now + MaxOpenAhead
MaxOpenAhead == 2

---------------------------------------------------------------------------
(* Program constants *)

\* Pubkey::default()
DefaultPubkey == 0
\* states/pool.rs, REWARD_NUM: the number of reward slots of a pool
REWARD_NUM == 2
\* states/pool.rs, reward_period_limit: the bounds of a period and the grace window
MIN_REWARD_PERIOD == 2
MAX_REWARD_PERIOD == 3
INCREASE_EMISSIONES_PERIOD == 3
\* libraries/fixed_point_64.rs, Q64: the scale of a rate
Q64 == 2 ^ FracBits
\* states/operation_account.rs
OPERATION_SIZE_USIZE == 10

\* The identities that sign requests: Pubkey::default(), the pool owner (1),
\* an operator (2) and a stranger (3).
Authorities == 0 .. 3

\* Option<T>: None, Some(v)
NoneVal == [some |-> FALSE, val |-> 0]
Some(v) == [some |-> TRUE, val |-> v]

Min(a, b) == IF a < b THEN a ELSE b

---------------------------------------------------------------------------
(* Fixed-point rate math: libraries/full_math.rs (MulDiv for U256) and      *)
(* libraries/big_num.rs (U256::as_u64)                                      *)

\* floor(a * b / denom), None when denom is 0
mul_div_floor(a, b, denom) ==
    IF denom = 0 THEN NoneVal ELSE Some((a * b) \div denom)

\* ceil(a * b / denom), None when denom is 0
mul_div_ceil(a, b, denom) ==
    IF denom = 0 THEN NoneVal ELSE Some((a * b + denom - 1) \div denom)

\* x.unwrap().as_u64(): the value when it fits in 64 bits, a panic otherwise
as_u64(x) ==
    IF x.some /\ x.val <= U64_MAX THEN x ELSE NoneVal

\* u64::checked_sub
checked_sub(a, b) == IF a >= b THEN Some(a - b) ELSE NoneVal

\* u64::saturating_sub, u128::saturating_sub
saturating_sub(a, b) == IF a >= b THEN a - b ELSE 0

\* checked_add wrapping around like u64::wrapping_add
wrapping_add(a, b) == Some((a + b) % (U64_MAX + 1))

\* u64::checked_add
checked_add(a, b) == IF a + b <= U64_MAX THEN Some(a + b) ELSE NoneVal

---------------------------------------------------------------------------
(* RewardInfo (states/pool.rs) *)

\* a slot that was never configured: every field at its default value
DefaultRewardInfo ==
    [ is_initialized |-> FALSE,
      emissions_per_second_x64 |-> 0,
      open_time |-> 0,
      end_time |-> 0,
      last_update_time |-> 0,
      token_vault |-> DefaultPubkey ]

\* RewardInfo::initialized
initialized(reward_info) == reward_info.is_initialized

\* PoolState::update_reward_infos, as far as the schedule is concerned: the
\* last_update_time of every initialized slot is advanced to
\* min(now, end_time); it is never moved backwards
update_reward_infos(infos, curr_timestamp) ==
    [ i \in DOMAIN infos |->
        IF ~initialized(infos[i]) THEN infos[i]
        ELSE LET latest_update_timestamp == Min(curr_timestamp, infos[i].end_time)
             IN  IF latest_update_timestamp > infos[i].last_update_time
                 THEN [infos[i] EXCEPT !.last_update_time = latest_update_timestamp]
                 ELSE infos[i] ]

---------------------------------------------------------------------------
(* Faults.  A fault is the error of the failing statement and its line in   *)
(* set_reward_params.rs; NoFault is Ok.                                     *)

NoFault == [err |-> "Ok", line |-> 0]
Fault(err, line) == [err |-> err, line |-> line]

---------------------------------------------------------------------------
(* normal_update and admin_update.  Each returns the fault it ends with,    *)
(* the branch it took, the updated RewardInfo and the reward amount.        *)

RuleResult(fault, branch, reward_info, reward_amount) ==
    [ fault |-> fault, branch |-> branch,
      reward_info |-> reward_info, reward_amount |-> reward_amount ]

\* ReplaceSchedule taking last_update_time from the open_time stored before
ReplaceSchedule_stale_open(reward_info, emissions_per_second_x64, open_time, end_time) ==
    [ reward_info EXCEPT !.open_time = open_time,
                         !.last_update_time = reward_info.open_time,
                         !.end_time = end_time,
                         !.emissions_per_second_x64 = emissions_per_second_x64 ]

\* ReplaceSchedule leaving the rate as it was
ReplaceSchedule_keeps_rate(reward_info, emissions_per_second_x64, open_time, end_time) ==
    [ reward_info EXCEPT !.open_time = open_time,
                         !.last_update_time = open_time,
                         !.end_time = end_time ]

\* the four assignments that replace a schedule (lines 177-180, 269-272)
ReplaceSchedule(reward_info, emissions_per_second_x64, open_time, end_time) ==
    [ reward_info EXCEPT !.open_time = open_time,
                         !.last_update_time = open_time,
                         !.end_time = end_time,
                         !.emissions_per_second_x64 = emissions_per_second_x64 ]

\* normal_period_valid refusing a window of exactly MIN_REWARD_PERIOD
normal_period_valid_strict(time_delta) ==
    ~ (time_delta <= MIN_REWARD_PERIOD \/ time_delta > MAX_REWARD_PERIOD)

\* normal_update: may the window of a fresh schedule be used (lines 161-165)
normal_period_valid(time_delta) ==
    ~ (time_delta < MIN_REWARD_PERIOD \/ time_delta > MAX_REWARD_PERIOD)

\* normal_new_period_amount rounding down
normal_new_period_amount_floor(time_delta, emissions_per_second_x64) ==
    as_u64(mul_div_floor(time_delta, emissions_per_second_x64, Q64))

\* normal_update: the reward amount of a fresh schedule (lines 168-174)
normal_new_period_amount(time_delta, emissions_per_second_x64) ==
    as_u64(mul_div_ceil(time_delta, emissions_per_second_x64, Q64))

\* normal_extend_valid without the lower bound
normal_extend_valid_no_min(extend_period) ==
    ~ (extend_period > MAX_REWARD_PERIOD)

\* normal_extend_valid admitting a request that does not extend
normal_extend_valid_or_none(extend_period) ==
    \/ extend_period = 0
    \/ ~ (extend_period < MIN_REWARD_PERIOD \/ extend_period > MAX_REWARD_PERIOD)

\* normal_update: may the end time be extended by extend_period (lines 187-191)
normal_extend_valid(extend_period) ==
    ~ (extend_period < MIN_REWARD_PERIOD \/ extend_period > MAX_REWARD_PERIOD)

\* normal_decrease_allowed admitting a remaining time equal to the grace window
normal_decrease_allowed_gte(emissions_per_second_x64, reward_info, left_reward_time) ==
    emissions_per_second_x64 < reward_info.emissions_per_second_x64
        => INCREASE_EMISSIONES_PERIOD >= left_reward_time

\* normal_update: the guard of a rate decrease (lines 194-199)
normal_decrease_allowed(emissions_per_second_x64, reward_info, left_reward_time) ==
    emissions_per_second_x64 < reward_info.emissions_per_second_x64
        => INCREASE_EMISSIONES_PERIOD > left_reward_time

\* normal_left_amount charging the new rate, not the increase of the rate
normal_left_amount_full_rate(left_reward_time, emissions_per_second_x64, reward_info) ==
    as_u64(mul_div_floor(left_reward_time, emissions_per_second_x64, Q64))

\* normal_update: the reward amount for the remaining time (lines 202-212)
normal_left_amount(left_reward_time, emissions_per_second_x64, reward_info) ==
    LET emission_diff_x64 ==
            saturating_sub(emissions_per_second_x64, reward_info.emissions_per_second_x64)
    IN  as_u64(mul_div_floor(left_reward_time, emission_diff_x64, Q64))

\* normal_extend_amount rounding up
normal_extend_amount_ceil(extend_period, emissions_per_second_x64) ==
    as_u64(mul_div_ceil(extend_period, emissions_per_second_x64, Q64))

\* normal_update: the reward amount of the extension (lines 219-225)
normal_extend_amount(extend_period, emissions_per_second_x64) ==
    as_u64(mul_div_floor(extend_period, emissions_per_second_x64, Q64))

\* normal_update, the reward emission has finished (lines 158-180)
normal_update_finished(reward_info, emissions_per_second_x64, open_time, end_time) ==
    LET time_delta == checked_sub(end_time, open_time) IN
    IF ~time_delta.some
    THEN RuleResult(Fault("Panic", 160), "finished", reward_info, 0)
    ELSE IF ~normal_period_valid(time_delta.val)
    THEN RuleResult(Fault("InvalidRewardPeriod", 164), "finished", reward_info, 0)
    ELSE LET reward_amount ==
                 normal_new_period_amount(time_delta.val, emissions_per_second_x64)
         IN  IF ~reward_amount.some
             THEN RuleResult(Fault("Panic", 173), "finished", reward_info, 0)
             ELSE RuleResult(NoFault, "finished",
                      ReplaceSchedule(reward_info, emissions_per_second_x64,
                                      open_time, end_time),
                      reward_amount.val)

\* normal_update, the reward emission is ongoing (lines 181-233)
normal_update_ongoing(reward_info, current_timestamp, emissions_per_second_x64, end_time) ==
    LET left_reward_time == checked_sub(reward_info.end_time, current_timestamp)
        extend_period == checked_sub(end_time, reward_info.end_time)
    IN
    IF ~left_reward_time.some
    THEN RuleResult(Fault("Panic", 184), "ongoing", reward_info, 0)
    ELSE IF ~extend_period.some
    THEN RuleResult(Fault("Panic", 185), "ongoing", reward_info, 0)
    ELSE IF ~normal_extend_valid(extend_period.val)
    THEN RuleResult(Fault("NotApproveUpdateRewardEmissiones", 190), "ongoing",
                    reward_info, 0)
    ELSE IF ~normal_decrease_allowed(emissions_per_second_x64, reward_info,
                                     left_reward_time.val)
    THEN RuleResult(Fault("RequireGtViolated", 195), "ongoing", reward_info, 0)
    ELSE
    LET amount1 == normal_left_amount(left_reward_time.val,
                                      emissions_per_second_x64, reward_info)
        info1 == [reward_info EXCEPT
                      !.emissions_per_second_x64 = emissions_per_second_x64]
    IN
    IF ~amount1.some
    THEN RuleResult(Fault("Panic", 211), "ongoing", reward_info, 0)
    ELSE IF extend_period.val > 0
    THEN LET reward_amount_diff ==
                 normal_extend_amount(extend_period.val, info1.emissions_per_second_x64)
         IN  IF ~reward_amount_diff.some
             THEN RuleResult(Fault("Panic", 224), "ongoing", info1, 0)
             ELSE LET sum == checked_add(amount1.val, reward_amount_diff.val) IN
                  IF ~sum.some
                  THEN RuleResult(Fault("Panic", 228), "ongoing", info1, 0)
                  ELSE RuleResult(NoFault, "ongoing",
                                  [info1 EXCEPT !.end_time = end_time], sum.val)
    ELSE RuleResult(NoFault, "ongoing", info1, amount1.val)

\* normal_update taking a schedule as finished only after its end time
normal_update_after_end(reward_info, current_timestamp, emissions_per_second_x64, open_time, end_time) ==
    IF current_timestamp > reward_info.end_time
    THEN normal_update_finished(reward_info, emissions_per_second_x64,
                                open_time, end_time)
    ELSE normal_update_ongoing(reward_info, current_timestamp,
                               emissions_per_second_x64, end_time)

\* normal_update writing the requested open_time also in the active branch
normal_update_reopening(reward_info, current_timestamp, emissions_per_second_x64, open_time, end_time) ==
    IF reward_info.last_update_time = reward_info.end_time
    THEN normal_update_finished(reward_info, emissions_per_second_x64,
                                open_time, end_time)
    ELSE LET r == normal_update_ongoing(reward_info, current_timestamp,
                                        emissions_per_second_x64, end_time)
         IN  IF r.fault = NoFault
             THEN [r EXCEPT !.reward_info.open_time = open_time]
             ELSE r

\* normal_update (lines 147-237)
normal_update(reward_info, current_timestamp, emissions_per_second_x64, open_time, end_time) ==
    IF reward_info.last_update_time = reward_info.end_time
    THEN normal_update_finished(reward_info, emissions_per_second_x64,
                                open_time, end_time)
    ELSE normal_update_ongoing(reward_info, current_timestamp,
                               emissions_per_second_x64, end_time)

\* admin_replaces taking a schedule that opens now as not yet started
admin_replaces_at_opening(reward_info, current_timestamp) ==
    \/ reward_info.last_update_time = reward_info.end_time
    \/ reward_info.open_time >= current_timestamp

\* admin_replaces without the test for a finished schedule
admin_replaces_unopened_only(reward_info, current_timestamp) ==
    reward_info.open_time > current_timestamp

\* admin_update: is the schedule replaced as a whole (lines 250-252)
admin_replaces(reward_info, current_timestamp) ==
    \/ reward_info.last_update_time = reward_info.end_time
    \/ reward_info.open_time > current_timestamp

\* admin_new_period_amount rounding down
admin_new_period_amount_floor(time_delta, emissions_per_second_x64) ==
    as_u64(mul_div_floor(time_delta, emissions_per_second_x64, Q64))

\* admin_update: the reward amount of a fresh schedule (lines 260-266)
admin_new_period_amount(time_delta, emissions_per_second_x64) ==
    as_u64(mul_div_ceil(time_delta, emissions_per_second_x64, Q64))

\* admin_update: the reward amount for the remaining time (lines 281-291)
admin_left_amount(left_reward_time, emissions_per_second_x64, reward_info) ==
    LET emission_diff_x64 ==
            saturating_sub(emissions_per_second_x64, reward_info.emissions_per_second_x64)
    IN  as_u64(mul_div_floor(left_reward_time, emission_diff_x64, Q64))

\* admin_update: the reward amount of the extension (lines 297-303)
admin_extend_amount(extend_period, emissions_per_second_x64) ==
    as_u64(mul_div_floor(extend_period, emissions_per_second_x64, Q64))

\* admin_update, the emission has finished or has not started (lines 250-272)
admin_update_finished(reward_info, emissions_per_second_x64, open_time, end_time) ==
    LET time_delta == checked_sub(end_time, open_time) IN
    IF ~time_delta.some
    THEN RuleResult(Fault("Panic", 254), "finished", reward_info, 0)
    ELSE IF time_delta.val = 0
    THEN RuleResult(Fault("InvalidRewardPeriod", 256), "finished", reward_info, 0)
    ELSE LET reward_amount ==
                 admin_new_period_amount(time_delta.val, emissions_per_second_x64)
         IN  IF ~reward_amount.some
             THEN RuleResult(Fault("Panic", 265), "finished", reward_info, 0)
             ELSE RuleResult(NoFault, "finished",
                      ReplaceSchedule(reward_info, emissions_per_second_x64,
                                      open_time, end_time),
                      reward_amount.val)

\* admin_update_ongoing applying the checks and amounts of the owner's rule
admin_update_ongoing_as_owner(reward_info, current_timestamp, emissions_per_second_x64, end_time) ==
    normal_update_ongoing(reward_info, current_timestamp,
                          emissions_per_second_x64, end_time)

\* admin_update_ongoing writing the end time only when it is extended
admin_update_ongoing_keeps_end(reward_info, current_timestamp, emissions_per_second_x64, end_time) ==
    LET left_reward_time == checked_sub(reward_info.end_time, current_timestamp)
        extend_period == saturating_sub(end_time, reward_info.end_time)
    IN
    IF ~left_reward_time.some
    THEN RuleResult(Fault("Panic", 276), "ongoing", reward_info, 0)
    ELSE
    LET amount1 == admin_left_amount(left_reward_time.val,
                                     emissions_per_second_x64, reward_info)
        info1 == [reward_info EXCEPT
                      !.emissions_per_second_x64 = emissions_per_second_x64]
        reward_amount_diff ==
            admin_extend_amount(extend_period, info1.emissions_per_second_x64)
    IN
    IF ~amount1.some
    THEN RuleResult(Fault("Panic", 290), "ongoing", reward_info, 0)
    ELSE IF ~reward_amount_diff.some
    THEN RuleResult(Fault("Panic", 302), "ongoing", info1, 0)
    ELSE LET sum == checked_add(amount1.val, reward_amount_diff.val) IN
         IF ~sum.some
         THEN RuleResult(Fault("Panic", 306), "ongoing", info1, 0)
         ELSE RuleResult(NoFault, "ongoing",
                         IF extend_period > 0
                         THEN [info1 EXCEPT !.end_time = end_time] ELSE info1,
                         sum.val)

\* admin_update, the reward emission is ongoing (lines 273-310)
admin_update_ongoing(reward_info, current_timestamp, emissions_per_second_x64, end_time) ==
    LET left_reward_time == checked_sub(reward_info.end_time, current_timestamp)
        extend_period == saturating_sub(end_time, reward_info.end_time)
    IN
    IF ~left_reward_time.some
    THEN RuleResult(Fault("Panic", 276), "ongoing", reward_info, 0)
    ELSE
    LET amount1 == admin_left_amount(left_reward_time.val,
                                     emissions_per_second_x64, reward_info)
        info1 == [reward_info EXCEPT
                      !.emissions_per_second_x64 = emissions_per_second_x64]
        reward_amount_diff ==
            admin_extend_amount(extend_period, info1.emissions_per_second_x64)
    IN
    IF ~amount1.some
    THEN RuleResult(Fault("Panic", 290), "ongoing", reward_info, 0)
    ELSE IF ~reward_amount_diff.some
    THEN RuleResult(Fault("Panic", 302), "ongoing", info1, 0)
    ELSE LET sum == checked_add(amount1.val, reward_amount_diff.val) IN
         IF ~sum.some
         THEN RuleResult(Fault("Panic", 306), "ongoing", info1, 0)
         ELSE RuleResult(NoFault, "ongoing",
                         [info1 EXCEPT !.end_time = end_time], sum.val)

\* admin_update (lines 239-314)
admin_update(reward_info, current_timestamp, emissions_per_second_x64, open_time, end_time) ==
    IF admin_replaces(reward_info, current_timestamp)
    THEN admin_update_finished(reward_info, emissions_per_second_x64,
                               open_time, end_time)
    ELSE admin_update_ongoing(reward_info, current_timestamp,
                              emissions_per_second_x64, end_time)

---------------------------------------------------------------------------
(* OperationState (states/operation_account.rs) *)

\* the array [Pubkey; OPERATION_SIZE_USIZE] holding keys, default-filled
PadOwners(keys) ==
    [ i \in 1 .. OPERATION_SIZE_USIZE |->
        IF i <= Len(keys) THEN keys[i] ELSE DefaultPubkey ]

\* [T]::contains
contains(array, key) == \E i \in DOMAIN array : array[i] = key

\* OperationState::validate_operation_owner
validate_operation_owner(owners, key) ==
    key # DefaultPubkey /\ contains(owners, key)

\* the elements of a sequence
Range(seq) == { seq[i] : i \in DOMAIN seq }

\* sort_by(|a, b| a.cmp(b)) of the elements collected from a HashSet: the
\* elements of the set in ascending order
RECURSIVE sort_by(_)
sort_by(set) ==
    IF set = {} THEN <<>>
    ELSE LET least == CHOOSE x \in set : \A y \in set : x <= y
         IN  <<least>> \o sort_by(set \ {least})

IsNotDefault(item) == item # DefaultPubkey

\* update_operation_owner aborting already when the array would be full
update_operation_owner_full_aborts(owners, keys) ==
    LET updated_owner == sort_by(Range(SelectSeq(owners \o keys, IsNotDefault)))
    IN  IF Len(updated_owner) >= OPERATION_SIZE_USIZE
        THEN [ok |-> FALSE, owners |-> owners]
        ELSE [ok |-> TRUE, owners |-> PadOwners(updated_owner)]

\* OperationState::update_operation_owner (lines 37-54): the stored keys
\* and the new ones, without the default key and without repetitions, in
\* ascending order; a panic when they are more than the array holds
update_operation_owner(owners, keys) ==
    LET operation_owners_vec == SelectSeq(owners \o keys, IsNotDefault)
        owners_set == Range(operation_owners_vec)
        updated_owner == sort_by(owners_set)
    IN  IF Len(updated_owner) > OPERATION_SIZE_USIZE
        THEN [ok |-> FALSE, owners |-> owners]
        ELSE [ok |-> TRUE, owners |-> PadOwners(updated_owner)]

\* remove_operation_owner resetting the removed entries where they are
remove_operation_owner_in_place(owners, keys) ==
    [ i \in DOMAIN owners |->
        IF contains(keys, owners[i]) THEN DefaultPubkey ELSE owners[i] ]

\* OperationState::remove_operation_owner (lines 56-65): the stored entries
\* that are not among the keys, in their order, moved to the front
remove_operation_owner(owners, keys) ==
    LET NotRemoved(x) == ~ contains(keys, x)
    IN  PadOwners(SelectSeq(owners, NotRemoved))

---------------------------------------------------------------------------
(* util/token.rs *)

\* transfer_from_user_to_pool_vault: nothing for amount 0; otherwise the
\* token program moves amount from the user's account to the vault, and
\* fails when the user's account does not hold it
transfer_from_user_to_pool_vault(from, to_vault, amount) ==
    IF amount = 0
    THEN [ok |-> TRUE, transfers |-> <<>>]
    ELSE IF ~from.funded
    THEN [ok |-> FALSE, transfers |-> <<>>]
    ELSE [ok |-> TRUE, transfers |-> <<[to |-> to_vault.key, amount |-> amount]>>]

---------------------------------------------------------------------------
(* set_reward_params (instructions/set_reward_params.rs) *)

\* a request: the signer, the instruction's arguments and the remaining accounts
Request(authority, reward_index, emissions_per_second_x64, open_time, end_time, accounts) ==
    [ authority |-> authority, reward_index |-> reward_index,
      emissions_per_second_x64 |-> emissions_per_second_x64,
      open_time |-> open_time, end_time |-> end_time, accounts |-> accounts ]

\* what a run of the handler ends with: the fault, whether the signer was
\* taken as an admin operator, the rule and branch that ran, the pool's
\* reward_infos as the handler left them, the reward amount and the transfers
Outcome(fault, admin, rule, branch, infos, reward_amount, transfers) ==
    [ fault |-> fault, admin_operator |-> admin, rule |-> rule, branch |-> branch,
      reward_infos |-> infos, reward_amount |-> reward_amount,
      transfers |-> transfers ]

\* check_arguments without the comparison of end_time and open_time
check_arguments_no_order(req) ==
    IF ~ (req.reward_index < REWARD_NUM) THEN Fault("Panic", 49)
    ELSE IF ~ (req.emissions_per_second_x64 > 0) THEN Fault("RequireGtViolated", 55)
    ELSE NoFault

\* lines 48-55: the checks of the arguments alone
check_arguments(req) ==
    IF ~ (req.reward_index < REWARD_NUM) THEN Fault("Panic", 49)
    ELSE IF ~ (req.end_time > req.open_time) THEN Fault("RequireGtViolated", 52)
    ELSE IF ~ (req.emissions_per_second_x64 > 0) THEN Fault("RequireGtViolated", 55)
    ELSE NoFault

\* admin_operator without the test for the default identity
admin_operator_any_key(admin_keys, authority) ==
    contains(admin_keys, authority)

\* lines 58-61: is the authority an admin operator
admin_operator(admin_keys, authority) ==
    contains(admin_keys, authority) /\ authority # DefaultPubkey

\* check_open_time admitting an open time equal to the current timestamp
check_open_time_gte(open_time, current_timestamp) ==
    IF ~ (open_time >= current_timestamp) THEN Fault("RequireGtViolated", 67)
    ELSE NoFault

\* line 67: the open time is later than the current timestamp
check_open_time(open_time, current_timestamp) ==
    IF ~ (open_time > current_timestamp) THEN Fault("RequireGtViolated", 67)
    ELSE NoFault

\* lines 73-75: who is not an admin operator must be the pool owner
check_authority(is_admin, authority, pool_owner) ==
    IF ~is_admin /\ authority # pool_owner THEN Fault("RequireKeysEqViolated", 74)
    ELSE NoFault

\* check_initialized letting every slot pass
check_initialized_skipped(reward_info) == NoFault

\* lines 84-86: the slot must have been initialized
check_initialized(reward_info) ==
    IF ~initialized(reward_info) THEN Fault("UnInitializedRewardInfo", 85)
    ELSE NoFault

\* check_opened comparing with the end of the schedule
check_opened_until_end(current_timestamp, reward_info) ==
    IF current_timestamp <= reward_info.end_time THEN Fault("NotApproved", 100)
    ELSE NoFault

\* lines 99-101: the pool owner may not touch a schedule that has not opened
check_opened(current_timestamp, reward_info) ==
    IF current_timestamp <= reward_info.open_time THEN Fault("NotApproved", 100)
    ELSE NoFault

\* settle dropping the result of the transfer
settle_ignoring_transfer(infos, reward_info, reward_amount, accounts) ==
    IF reward_amount > 0
    THEN IF accounts.vault.mint # accounts.funder.mint
         THEN [fault |-> Fault("RequireKeysEqViolated", 128), transfers |-> <<>>]
         ELSE IF accounts.vault.key # reward_info.token_vault
         THEN [fault |-> Fault("RequireKeysEqViolated", 129), transfers |-> <<>>]
         ELSE [fault |-> NoFault,
               transfers |-> transfer_from_user_to_pool_vault(
                                 accounts.funder, accounts.vault, reward_amount).transfers]
    ELSE [fault |-> NoFault, transfers |-> <<>>]

\* settle checking the accounts also for a reward amount of 0
settle_checking_always(infos, reward_info, reward_amount, accounts) ==
    IF accounts.vault.mint # accounts.funder.mint
    THEN [fault |-> Fault("RequireKeysEqViolated", 128), transfers |-> <<>>]
    ELSE IF accounts.vault.key # reward_info.token_vault
    THEN [fault |-> Fault("RequireKeysEqViolated", 129), transfers |-> <<>>]
    ELSE LET t == transfer_from_user_to_pool_vault(
                      accounts.funder, accounts.vault, reward_amount)
         IN  IF ~t.ok
             THEN [fault |-> Fault("TokenError", 141), transfers |-> <<>>]
             ELSE [fault |-> NoFault, transfers |-> t.transfers]

\* settle without the comparison of the vault with the slot's token_vault
settle_any_vault(infos, reward_info, reward_amount, accounts) ==
    IF reward_amount > 0
    THEN IF accounts.vault.mint # accounts.funder.mint
         THEN [fault |-> Fault("RequireKeysEqViolated", 128), transfers |-> <<>>]
         ELSE LET t == transfer_from_user_to_pool_vault(
                           accounts.funder, accounts.vault, reward_amount)
              IN  IF ~t.ok
                  THEN [fault |-> Fault("TokenError", 141), transfers |-> <<>>]
                  ELSE [fault |-> NoFault, transfers |-> t.transfers]
    ELSE [fault |-> NoFault, transfers |-> <<>>]

\* lines 116-142: the funding of the reward amount
settle(infos, reward_info, reward_amount, accounts) ==
    IF reward_amount > 0
    THEN IF accounts.vault.mint # accounts.funder.mint
         THEN [fault |-> Fault("RequireKeysEqViolated", 128), transfers |-> <<>>]
         ELSE IF accounts.vault.key # reward_info.token_vault
         THEN [fault |-> Fault("RequireKeysEqViolated", 129), transfers |-> <<>>]
         ELSE LET t == transfer_from_user_to_pool_vault(
                           accounts.funder, accounts.vault, reward_amount)
              IN  IF ~t.ok
                  THEN [fault |-> Fault("TokenError", 141), transfers |-> <<>>]
                  ELSE [fault |-> NoFault, transfers |-> t.transfers]
    ELSE [fault |-> NoFault, transfers |-> <<>>]

\* write_back storing the record in the first slot, whatever the index
write_back_first_slot(infos, reward_index, reward_info) ==
    [infos EXCEPT ![0] = reward_info]

\* line 113: the updated record is stored in the slot of the request
write_back(infos, reward_index, reward_info) ==
    [infos EXCEPT ![reward_index] = reward_info]

\* set_reward_params (lines 41-145)
set_reward_params(infos, admin_keys, pool_owner, current_timestamp, req) ==
    LET f1 == check_arguments(req)
        is_admin == admin_operator(admin_keys, req.authority)
        f2 == check_open_time(req.open_time, current_timestamp)
        f3 == check_authority(is_admin, req.authority, pool_owner)
    IN
    IF f1 # NoFault THEN Outcome(f1, FALSE, "none", "none", infos, 0, <<>>)
    ELSE IF f2 # NoFault THEN Outcome(f2, is_admin, "none", "none", infos, 0, <<>>)
    ELSE IF f3 # NoFault THEN Outcome(f3, is_admin, "none", "none", infos, 0, <<>>)
    ELSE
    LET infos1 == update_reward_infos(infos, current_timestamp)
        reward_info == infos1[req.reward_index]
    IN
    IF check_initialized(reward_info) # NoFault
    THEN Outcome(check_initialized(reward_info), is_admin, "none", "none",
                 infos1, 0, <<>>)
    ELSE IF ~is_admin /\ check_opened(current_timestamp, reward_info) # NoFault
    THEN Outcome(check_opened(current_timestamp, reward_info), is_admin,
                 "none", "none", infos1, 0, <<>>)
    ELSE
    LET rule == IF is_admin THEN "admin" ELSE "normal"
        r == IF is_admin
             THEN admin_update(reward_info, current_timestamp,
                               req.emissions_per_second_x64, req.open_time, req.end_time)
             ELSE normal_update(reward_info, current_timestamp,
                                req.emissions_per_second_x64, req.open_time, req.end_time)
    IN
    \* .unwrap(): a fault of the rule ends the instruction
    IF r.fault # NoFault
    THEN Outcome(r.fault, is_admin, rule, r.branch, infos1, 0, <<>>)
    ELSE
    LET infos2 == write_back(infos1, req.reward_index, r.reward_info)
        s == settle(infos2, r.reward_info, r.reward_amount, req.accounts)
    IN  Outcome(s.fault, is_admin, rule, r.branch, infos2, r.reward_amount,
                s.transfers)

---------------------------------------------------------------------------
(* The state machine *)

\* The token accounts a request passes as remaining accounts: the vault of
\* slot 0 funded from an account that holds the amount, the same from an
\* account that does not, another vault of the same mint, a vault of
\* another mint.
RemainingAccounts ==
    { [vault |-> [key |-> 10, mint |-> 20], funder |-> [mint |-> 20, funded |-> TRUE]],
      [vault |-> [key |-> 10, mint |-> 20], funder |-> [mint |-> 20, funded |-> FALSE]],
      [vault |-> [key |-> 11, mint |-> 20], funder |-> [mint |-> 20, funded |-> TRUE]],
      [vault |-> [key |-> 12, mint |-> 21], funder |-> [mint |-> 20, funded |-> TRUE]] }

\* the accounts passed with a request on slot i: only slot 0 has a vault
AccountsFor(i) ==
    IF i = 0 THEN RemainingAccounts
    ELSE { acc \in RemainingAccounts : acc.vault.key = 10 /\ acc.funder.funded }

\* The requests that can arrive when the clock shows t: any signer, any slot
\* index up to the first invalid one, any rate up to MaxRate, an open_time
\* from t (not later than the clock) to t + MaxAhead, an end_time from t to
\* MaxTime.
Requests(t) ==
    UNION { { Request(a, i, r, o, e, acc) :
                a \in Authorities, r \in 0 .. MaxRate,
                o \in t .. t + MaxAhead, e \in t .. MaxTime,
                acc \in AccountsFor(i) } : i \in 0 .. REWARD_NUM }

\* slot 0 was initialized (by initialize_reward) with a schedule that opens
\* at 1 and ends at 3, at the smallest rate; the other slots were not
InitialRewardInfos ==
    [ i \in 0 .. REWARD_NUM - 1 |->
        IF i = 0
        THEN [ is_initialized |-> TRUE,
               emissions_per_second_x64 |-> 1,
               open_time |-> 1, end_time |-> 3, last_update_time |-> 1,
               token_vault |-> 10 ]
        ELSE DefaultRewardInfo ]

\* nothing has taken effect yet
NoCall ==
    [ op |-> "none", req |-> Request(0, 0, 0, 0, 0, {}), admin_operator |-> FALSE,
      rule |-> "none", branch |-> "none", reward_amount |-> 0, transfers |-> <<>>,
      shortened |-> FALSE ]

Init ==
    /\ now = 0
    /\ reward_infos = InitialRewardInfos
    /\ owner = 1
    /\ operation_owners \in {PadOwners(<<2>>), PadOwners(<<1, 2>>)}
    /\ last = NoCall

\* the clock advances
Tick ==
    /\ now < MaxNow
    /\ now' = now + 1
    /\ last' = [NoCall EXCEPT !.op = "tick"]
    /\ UNCHANGED <<reward_infos, owner, operation_owners>>

\* the handler run on the current state
Run(req) == set_reward_params(reward_infos, operation_owners, owner, now, req)

\* What the runtime keeps of a run of the handler: the account data it
\* wrote and the transfers it made when it returned Ok, nothing otherwise.
committed_infos(before, out) ==
    IF out.fault = NoFault THEN out.reward_infos ELSE before

committed_transfers(out) ==
    IF out.fault = NoFault THEN out.transfers ELSE <<>>

\* the run moved the end time of an active schedule to an earlier time
shortens(before, req, out) ==
    /\ out.branch = "ongoing"
    /\ req.end_time < before[req.reward_index].end_time

\* One set_reward_params instruction.  A failed instruction leaves no trace.
SetRewardParams(req) ==
    \E out \in {Run(req)} :
        /\ reward_infos' = committed_infos(reward_infos, out)
        /\ last' = IF out.fault = NoFault
                   THEN [ op |-> "set_reward_params",
                          req |-> req,
                          admin_operator |-> out.admin_operator,
                          rule |-> out.rule,
                          branch |-> out.branch,
                          reward_amount |-> out.reward_amount,
                          transfers |-> committed_transfers(out),
                          shortened |-> shortens(reward_infos, req, out) ]
                   ELSE last
        /\ UNCHANGED <<now, owner, operation_owners>>

Next ==
    \/ Tick
    \/ \E req \in Requests(now) : SetRewardParams(req)

Spec == Init /\ [][Next]_vars

\* slot 0 was initialized with a schedule that opens at 2 and ends at 4:
\* when the clock starts, it is more than one second from its opening
InitialRewardInfosLate ==
    [ InitialRewardInfos EXCEPT ![0].open_time = 2,
                                ![0].end_time = 4,
                                ![0].last_update_time = 2 ]

InitLate ==
    /\ now = 0
    /\ reward_infos = InitialRewardInfosLate
    /\ owner = 1
    /\ operation_owners \in {PadOwners(<<2>>), PadOwners(<<1, 2>>)}
    /\ last = NoCall

SpecLate == InitLate /\ [][Next]_vars

---------------------------------------------------------------------------
(* Requests that open further ahead *)

\* The requests of the pool owner and of the operator on slot 0 with its
\* vault and a funded account: any rate up to MaxRate, an open_time from t to
\* t + MaxOpenAhead, an end_time from t to MaxTime.
RequestsAhead(t) ==
    { Request(a, 0, r, o, e, acc) :
        a \in 1 .. 2, r \in 0 .. MaxRate,
        o \in t .. t + MaxOpenAhead, e \in t .. MaxTime,
        acc \in { x \in RemainingAccounts : x.vault.key = 10 /\ x.funder.funded } }

NextAhead ==
    \/ Tick
    \/ \E req \in RequestsAhead(now) : SetRewardParams(req)

SpecAhead == Init /\ [][NextAhead]_vars

---------------------------------------------------------------------------
(* A pool with both reward slots initialized *)

\* slot 1 was initialized as well, with its own vault (11) and a schedule
\* that opens at 1 and ends at 4 at the largest rate
InitialRewardInfosBoth ==
    [ InitialRewardInfos EXCEPT
        ![1] = [ is_initialized |-> TRUE,
                 emissions_per_second_x64 |-> MaxRate,
                 open_time |-> 1, end_time |-> 4, last_update_time |-> 1,
                 token_vault |-> 11 ] ]

InitBoth ==
    /\ now = 0
    /\ reward_infos = InitialRewardInfosBoth
    /\ owner = 1
    /\ operation_owners = PadOwners(<<2>>)
    /\ last = NoCall

\* The requests of the pool owner and of the operator on either slot that
\* pass the checks of the arguments, funded from an account that holds the
\* amount, with the vault of slot 0 or the vault of slot 1.
RequestsBoth(t) ==
    { Request(a, i, r, o, e, acc) :
        a \in 1 .. 2, i \in 0 .. REWARD_NUM - 1, r \in 1 .. MaxRate,
        o \in t + 1 .. t + MaxAhead, e \in t + 2 .. MaxTime,
        acc \in { x \in RemainingAccounts :
                    x.funder.funded /\ x.vault.mint = x.funder.mint } }

NextBoth ==
    \/ Tick
    \/ \E req \in RequestsBoth(now) : SetRewardParams(req)

SpecBoth == InitBoth /\ [][NextBoth]_vars

---------------------------------------------------------------------------
(* The allow-list on its own: the operations of OperationState *)

\* the keys n, n - 1, .., 1: n distinct keys, not in ascending order
Descending(n) == [ i \in 1 .. n |-> n + 1 - i ]

\* The vectors of keys passed to the operations: every vector of at most
\* two keys out of 0 .. 3 (the default key, repetitions and both orders
\* among them), vectors that fill the array or overflow it on their own,
\* and one that overflows it together with what is stored.
KeyVectors ==
    {<<>>}
        \cup { <<a>> : a \in 0 .. 3 }
        \cup { <<a, b>> : a \in 0 .. 3, b \in 0 .. 3 }
        \cup { Descending(n) : n \in MaxKey - 2 .. MaxKey }
        \cup { <<MaxKey - 3, MaxKey, MaxKey - 1, MaxKey - 2>> }

\* OperationState::initialize: every entry is the default key
InitOperation ==
    /\ now = 0
    /\ reward_infos = InitialRewardInfos
    /\ owner = 1
    /\ operation_owners = PadOwners(<<>>)
    /\ last = [op |-> "initialize", keys |-> <<>>, ok |-> TRUE]

\* One call of update_operation_owner.  A call that panics changes nothing.
UpdateOperationOwner(keys) ==
    \E out \in {update_operation_owner(operation_owners, keys)} :
        /\ operation_owners' = IF out.ok THEN out.owners ELSE operation_owners
        /\ last' = [op |-> "update_operation_owner", keys |-> keys, ok |-> out.ok]
        /\ UNCHANGED <<now, reward_infos, owner>>

\* One call of remove_operation_owner.
RemoveOperationOwner(keys) ==
    /\ operation_owners' = remove_operation_owner(operation_owners, keys)
    /\ last' = [op |-> "remove_operation_owner", keys |-> keys, ok |-> TRUE]
    /\ UNCHANGED <<now, reward_infos, owner>>

NextOperation ==
    \/ \E keys \in KeyVectors : UpdateOperationOwner(keys)
    \/ \E keys \in KeyVectors : RemoveOperationOwner(keys)

SpecOperation == InitOperation /\ [][NextOperation]_vars

---------------------------------------------------------------------------
(* Time that keeps advancing, and an operator that can be taken off the    *)
(* allow-list                                                              *)

\* the operator (2) is on the allow-list, the pool owner is not
InitLive ==
    /\ now = 0
    /\ reward_infos = InitialRewardInfos
    /\ owner = 1
    /\ operation_owners = PadOwners(<<2>>)
    /\ last = NoCall

\* The requests of the pool owner and of the operator on slot 0 that pass
\* the checks of the arguments, with the slot's vault and a funded account.
\* The clock shows at most MaxNow (it is a signed number of seconds, at most
\* 2^63 - 1 in the program); a request carries times up to MaxTime (unsigned,
\* up to 2^64 - 1 in the program).
RequestsLive(t) ==
    { Request(a, 0, r, o, e, acc) :
        a \in 1 .. 2, r \in 1 .. MaxRate,
        o \in t + 1 .. t + MaxAhead, e \in t + 2 .. MaxTime,
        acc \in { x \in RemainingAccounts : x.vault.key = 10 /\ x.funder.funded } }

NextLive ==
    \/ Tick
    \/ \E req \in RequestsLive(now) : SetRewardParams(req)
    \/ RemoveOperationOwner(<<2>>)

\* the clock never stops before MaxNow
SpecLive == InitLive /\ [][NextLive]_vars /\ WF_vars(Tick)

---------------------------------------------------------------------------
(* Vocabulary of the properties *)

\* the slots of the pool
Slots == 0 .. REWARD_NUM - 1

\* the outcome of every request that can arrive now satisfies P
AllRuns(P(_, _)) ==
    \A req \in Requests(now) : \A out \in {Run(req)} : P(req, out)

\* some request that can arrive now has an outcome that satisfies P
SomeRun(P(_, _)) ==
    \E req \in Requests(now) : \E out \in {Run(req)} : P(req, out)

Accepted(out) == out.fault = NoFault

\* the rule returned a reward amount (the run ended Ok or in the settlement)
RuleReturned(out) ==
    /\ out.rule # "none"
    /\ out.fault = NoFault \/ (out.fault.line >= 116 /\ out.fault.line <= 142)

\* the tokens moved by a sequence of transfers
RECURSIVE TransferTotal(_)
TransferTotal(ts) ==
    IF ts = <<>> THEN 0 ELSE ts[1].amount + TransferTotal(Tail(ts))

\* floor(x / d) and ceil(x / d) for x >= 0, d > 0, from their definitions
FloorOf(x, d) == CHOOSE n \in 0 .. x : n * d <= x /\ x < (n + 1) * d
CeilOf(x, d) == CHOOSE n \in 0 .. x : n * d >= x /\ (n = 0 \/ (n - 1) * d < x)

\* the seconds a schedule still has to run at time t
SecondsToRun(info, t) ==
    IF t >= info.end_time THEN 0
    ELSE info.end_time - (IF t > info.open_time THEN t ELSE info.open_time)

\* the outstanding commitment of a slot at time t, times 2^64
Commitment_x64(info, t) ==
    info.emissions_per_second_x64 * SecondsToRun(info, t)

\* the class of a caller
Classify(caller) ==
    IF caller # DefaultPubkey /\ (\E i \in DOMAIN operation_owners : operation_owners[i] = caller)
    THEN "Privileged"
    ELSE IF caller = owner THEN "Owner"
    ELSE "Unauthorized"

---------------------------------------------------------------------------
(* C1 *)

\* the increase of the commitment of the request's slot caused by a run, times 2^64
CommitmentIncrease_x64(req, out) ==
    Commitment_x64(out.reward_infos[req.reward_index], now)
        - Commitment_x64(reward_infos[req.reward_index], now)

\* the run replaces a finished schedule, or updates an active one without
\* lowering the rate or shortening the end time
KeepsWhatWasFunded(req, out) ==
    LET old == reward_infos[req.reward_index] IN
    \/ out.branch = "finished" /\ SecondsToRun(old, now) = 0
    \/ /\ out.branch = "ongoing"
       /\ req.emissions_per_second_x64 >= old.emissions_per_second_x64
       /\ req.end_time >= old.end_time

C1_OriginalOf(req, out) ==
    Accepted(out) =>
        /\ Len(out.transfers) <= 1
        /\ TransferTotal(out.transfers) * Q64 > CommitmentIncrease_x64(req, out) - Q64
        /\ TransferTotal(out.transfers) * Q64 < CommitmentIncrease_x64(req, out) + Q64

C1_AmendedOf(req, out) ==
    Accepted(out) =>
        /\ Len(out.transfers) <= 1
        /\ TransferTotal(out.transfers) = out.reward_amount
        /\ out.reward_amount * Q64 > CommitmentIncrease_x64(req, out) - 2 * Q64
        /\ KeepsWhatWasFunded(req, out) =>
               out.reward_amount * Q64 < CommitmentIncrease_x64(req, out) + Q64

---------------------------------------------------------------------------
(* C2 *)

C2_AtomicOf(req, out) ==
    /\ ~Accepted(out) =>
           /\ committed_infos(reward_infos, out) = reward_infos
           /\ committed_transfers(out) = <<>>
           /\ out.transfers = <<>>
    /\ Accepted(out) =>
           /\ committed_infos(reward_infos, out) = out.reward_infos
           /\ TransferTotal(committed_transfers(out)) = out.reward_amount

\* C2: a rejected request leaves the reward records as they were and moves
\* no tokens, the handler makes no transfer before its last check has
\* passed, and an accepted request takes effect as a whole: the record the
\* handler wrote and a transfer of exactly the reward amount.
C2_Atomic == AllRuns(C2_AtomicOf)

C2_RolledBack(req, out) ==
    /\ out.fault.line >= 116
    /\ out.reward_infos # reward_infos
    /\ out.reward_amount > 0

\* a request fails in the settlement after the handler has written the new
\* schedule to the pool
C2_Witness == SomeRun(C2_RolledBack)

---------------------------------------------------------------------------
(* C3 *)

C3_ClassesOf(req, out) ==
    /\ out.rule = "admin" => Classify(req.authority) = "Privileged"
    /\ out.rule = "normal" => Classify(req.authority) = "Owner"
    /\ (check_arguments(req) = NoFault) =>
           (out.admin_operator <=> Classify(req.authority) = "Privileged")
    /\ Classify(req.authority) = "Unauthorized" =>
           /\ ~Accepted(out)
           /\ out.rule = "none"
           /\ committed_infos(reward_infos, out) = reward_infos
           /\ committed_transfers(out) = <<>>
    /\ (Classify(req.authority) # "Unauthorized"
            /\ check_arguments(req) = NoFault
            /\ req.open_time > now) => out.fault # Fault("RequireKeysEqViolated", 74)

\* C3: a caller is taken as privileged iff it is a non-default identity of
\* the allow-list (also when it is the pool owner), otherwise as the owner
\* iff it is the pool's owner, otherwise as unauthorized; the privileged
\* rule runs only for privileged callers, the owner rule only for owners,
\* and a request of an unauthorized caller changes nothing and moves nothing.
C3_Classes == AllRuns(C3_ClassesOf)

\* the pool owner, being on the allow-list, was served by the privileged rule
C3_Witness ==
    /\ last.op = "set_reward_params"
    /\ last.rule = "admin"
    /\ last.req.authority = owner

---------------------------------------------------------------------------
(* C4 *)

C4_FreshOf(req, out) ==
    (out.branch = "finished" /\ RuleReturned(out)) =>
        out.reward_amount =
            CeilOf((req.end_time - req.open_time) * req.emissions_per_second_x64, Q64)

\* C4: whenever the fresh-schedule branch of either rule returns a reward
\* amount, it is ceil((end_time - open_time) * emissions_per_second / 2^64).
C4_Fresh == AllRuns(C4_FreshOf)

\* an owner's fresh schedule was charged an amount that was rounded up
C4_Witness ==
    /\ last.op = "set_reward_params"
    /\ last.rule = "normal"
    /\ last.branch = "finished"
    /\ last.reward_amount * Q64 >
           (last.req.end_time - last.req.open_time) * last.req.emissions_per_second_x64

---------------------------------------------------------------------------
(* C5 *)

\* the amount C5 states for a request on the slot as stored before the call
C5_Expected(req) ==
    LET old == reward_infos[req.reward_index]
        left == old.end_time - now
        diff == IF req.emissions_per_second_x64 > old.emissions_per_second_x64
                THEN req.emissions_per_second_x64 - old.emissions_per_second_x64
                ELSE 0
        extend_period == IF req.end_time > old.end_time
                         THEN req.end_time - old.end_time ELSE 0
    IN  FloorOf(left * diff, Q64)
            + (IF extend_period > 0
               THEN FloorOf(extend_period * req.emissions_per_second_x64, Q64)
               ELSE 0)

C5_ActiveOf(req, out) ==
    (out.branch = "ongoing" /\ RuleReturned(out)) =>
        out.reward_amount = C5_Expected(req)

\* C5: whenever the active branch of either rule returns a reward amount, it
\* is floor((old_end_time - now) * max(0, new_rate - old_rate) / 2^64), plus
\* floor(extend_period * new_rate / 2^64) when extend_period > 0.
C5_Active == AllRuns(C5_ActiveOf)

C5_BothTerms(req, out) ==
    LET old == reward_infos[req.reward_index] IN
    /\ out.branch = "ongoing" /\ Accepted(out)
    /\ req.end_time > old.end_time
    /\ out.reward_amount >
           FloorOf((req.end_time - old.end_time) * req.emissions_per_second_x64, Q64)

\* an update of an active schedule was charged, and a request is accepted
\* whose amount has both terms positive
C5_Witness ==
    /\ last.op = "set_reward_params"
    /\ last.branch = "ongoing"
    /\ last.reward_amount > 0
    /\ SomeRun(C5_BothTerms)

---------------------------------------------------------------------------
(* C6 *)

RateDecreaseTooEarly == Fault("RequireGtViolated", 195)
InvalidExtension == Fault("NotApproveUpdateRewardEmissiones", 190)

OwnerOnActive(out) == out.rule = "normal" /\ out.branch = "ongoing"

ExtensionInBounds(req) ==
    LET old == reward_infos[req.reward_index] IN
    /\ req.end_time - old.end_time >= MIN_REWARD_PERIOD
    /\ req.end_time - old.end_time <= MAX_REWARD_PERIOD

C6_OriginalOf(req, out) ==
    LET old == reward_infos[req.reward_index]
        lower == req.emissions_per_second_x64 < old.emissions_per_second_x64
        left == old.end_time - now
    IN  OwnerOnActive(out) =>
            /\ (lower /\ left >= INCREASE_EMISSIONES_PERIOD)
                   => out.fault = RateDecreaseTooEarly
            /\ (~lower \/ left < INCREASE_EMISSIONES_PERIOD)
                   => out.fault # RateDecreaseTooEarly

\* C6 as stated: an owner's request on an active schedule that lowers the
\* rate is rejected with RateDecreaseTooEarly whenever
\* old_end_time - now >= GRACE_WINDOW, and is not rejected by this guard
\* when old_end_time - now < GRACE_WINDOW or the rate is not lowered.
C6_Original == AllRuns(C6_OriginalOf)

C6_AmendedOf(req, out) ==
    LET old == reward_infos[req.reward_index]
        lower == req.emissions_per_second_x64 < old.emissions_per_second_x64
        left == old.end_time - now
    IN  OwnerOnActive(out) =>
            /\ (lower /\ left >= INCREASE_EMISSIONES_PERIOD /\ ExtensionInBounds(req))
                   => out.fault = RateDecreaseTooEarly
            /\ (~lower \/ left < INCREASE_EMISSIONES_PERIOD \/ ~ExtensionInBounds(req))
                   => out.fault # RateDecreaseTooEarly

\* C6 amended: an owner's request on an active schedule that lowers the
\* rate and whose extension end_time - old_end_time lies in
\* [MIN_PERIOD, MAX_PERIOD] is rejected with RateDecreaseTooEarly whenever
\* old_end_time - now >= GRACE_WINDOW; it is not rejected by this guard when
\* old_end_time - now < GRACE_WINDOW, when the rate is not lowered, or when
\* the extension is out of bounds (that request is rejected earlier, by the
\* extension check).
C6_Amended == AllRuns(C6_AmendedOf)

C6_TooEarly(req, out) == out.fault = RateDecreaseTooEarly

\* an owner has updated an active schedule, and a request that lowers its
\* rate is rejected by the guard
C6_Witness ==
    /\ last.op = "set_reward_params"
    /\ last.rule = "normal"
    /\ last.branch = "ongoing"
    /\ SomeRun(C6_TooEarly)

---------------------------------------------------------------------------
(* C7 *)

InvalidRewardPeriod == Fault("InvalidRewardPeriod", 164)

WindowInBounds(req) ==
    /\ req.end_time - req.open_time >= MIN_REWARD_PERIOD
    /\ req.end_time - req.open_time <= MAX_REWARD_PERIOD

\* the amount of the fresh schedule fits in 64 bits
FreshAmountFits(req) ==
    CeilOf((req.end_time - req.open_time) * req.emissions_per_second_x64, Q64)
        <= U64_MAX

\* the accounts passed are the slot's vault and a funding account of its
\* mint that holds the amount
Settles(req) ==
    /\ req.accounts.vault.mint = req.accounts.funder.mint
    /\ req.accounts.vault.key = reward_infos[req.reward_index].token_vault
    /\ req.accounts.funder.funded

C7_OriginalOf(req, out) ==
    /\ (out.rule = "normal" /\ out.branch = "finished") =>
           /\ Accepted(out) <=> WindowInBounds(req)
           /\ ~WindowInBounds(req) => out.fault = InvalidRewardPeriod
    /\ (out.rule = "admin" /\ out.branch = "finished") => Accepted(out)

\* C7 as stated: an owner's request on an elapsed schedule that has passed
\* the pre-checks is accepted iff MIN_PERIOD <= end_time - open_time <=
\* MAX_PERIOD (InvalidRewardPeriod otherwise); a privileged request in the
\* fresh-schedule branch is accepted for every window length > 0.
C7_Original == AllRuns(C7_OriginalOf)

C7_AmendedOf(req, out) ==
    /\ (out.rule = "normal" /\ out.branch = "finished") =>
           /\ out.fault = InvalidRewardPeriod <=> ~WindowInBounds(req)
           /\ Accepted(out) <=>
                  (WindowInBounds(req) /\ FreshAmountFits(req) /\ Settles(req))
    /\ (out.rule = "admin" /\ out.branch = "finished") =>
           /\ out.fault.err # "InvalidRewardPeriod"
           /\ Accepted(out) <=> (FreshAmountFits(req) /\ Settles(req))

\* C7 amended: an owner's request on an elapsed schedule that has passed the
\* pre-checks is rejected with InvalidRewardPeriod iff end_time - open_time
\* is outside [MIN_PERIOD, MAX_PERIOD]; a privileged request in the
\* fresh-schedule branch is never rejected for its window length.  Either
\* is accepted iff, besides, the reward amount fits in 64 bits and the
\* funding settles (the slot's vault, a funding account of its mint that
\* holds the amount).
C7_Amended == AllRuns(C7_AmendedOf)

C7_ShortWindow(req, out) ==
    /\ out.rule = "admin" /\ out.branch = "finished" /\ Accepted(out)
    /\ req.end_time - req.open_time < MIN_REWARD_PERIOD

\* an owner's fresh schedule was accepted, and a privileged request with a
\* window shorter than MIN_PERIOD is accepted
C7_Witness ==
    /\ last.op = "set_reward_params"
    /\ last.rule = "normal"
    /\ last.branch = "finished"
    /\ WindowInBounds(last.req)
    /\ SomeRun(C7_ShortWindow)

---------------------------------------------------------------------------
(* C8 *)

\* the same request run again on what its first run has written
SecondRun(req, out) ==
    set_reward_params(out.reward_infos, operation_owners, owner, now, req)

C8_IdempotentOf(req, out) ==
    Accepted(out) =>
        \A second \in {SecondRun(req, out)} :
            Accepted(second) =>
                second.reward_amount * Q64 <
                    Commitment_x64(second.reward_infos[req.reward_index], now)
                        - Commitment_x64(out.reward_infos[req.reward_index], now)
                        + Q64

\* C8: when the identical request is submitted twice back-to-back at the
\* same time, the second call observing the record written by the first, an
\* accepted second call is charged only the change of the commitment
\* relative to the schedule the first call stored (less than one token more).
C8_Idempotent == AllRuns(C8_IdempotentOf)

---------------------------------------------------------------------------
(* C9 *)

C9_OriginalOf(req, out) ==
    OwnerOnActive(out) =>
        /\ Accepted(out) => ExtensionInBounds(req)
        /\ ~ExtensionInBounds(req) =>
               /\ out.fault = InvalidExtension
               /\ committed_infos(reward_infos, out) = reward_infos

\* C9 as stated: an owner's request on an active schedule is accepted only
\* if MIN_PERIOD <= end_time - old_end_time <= MAX_PERIOD; every other
\* request, also one whose end_time equals or is earlier than the stored
\* end_time, is rejected with InvalidExtension and changes nothing.
C9_Original == AllRuns(C9_OriginalOf)

C9_AmendedOf(req, out) ==
    LET old == reward_infos[req.reward_index] IN
    OwnerOnActive(out) =>
        /\ Accepted(out) => ExtensionInBounds(req)
        /\ ~ExtensionInBounds(req) =>
               /\ ~Accepted(out)
               /\ committed_infos(reward_infos, out) = reward_infos
               /\ committed_transfers(out) = <<>>
               /\ req.end_time >= old.end_time => out.fault = InvalidExtension
               /\ req.end_time < old.end_time => out.fault = Fault("Panic", 185)

\* C9 amended: an owner's request on an active schedule is accepted only if
\* MIN_PERIOD <= end_time - old_end_time <= MAX_PERIOD; every other request
\* is rejected and changes nothing: with InvalidExtension when end_time is
\* not earlier than the stored end_time, and by an arithmetic failure of the
\* subtraction end_time - old_end_time when it is earlier.
C9_Amended == AllRuns(C9_AmendedOf)

C9_SameEnd(req, out) ==
    /\ OwnerOnActive(out)
    /\ req.end_time = reward_infos[req.reward_index].end_time
    /\ out.fault = InvalidExtension

C9_EarlierEnd(req, out) ==
    /\ OwnerOnActive(out)
    /\ req.end_time < reward_infos[req.reward_index].end_time
    /\ ~Accepted(out)

\* an owner has extended an active schedule, and requests that keep its end
\* time and that move it earlier are rejected
C9_Witness ==
    /\ last.op = "set_reward_params"
    /\ last.rule = "normal"
    /\ last.branch = "ongoing"
    /\ reward_infos[last.req.reward_index].end_time = last.req.end_time
    /\ SomeRun(C9_SameEnd)
    /\ SomeRun(C9_EarlierEnd)

---------------------------------------------------------------------------
(* C10 *)

\* C10: in every reachable state, every initialized slot has its stored
\* open_time strictly before its stored end_time.
C10_OpenBeforeEnd ==
    \A i \in Slots :
        initialized(reward_infos[i]) =>
            reward_infos[i].open_time < reward_infos[i].end_time

\* a privileged caller has moved the end time of an active schedule earlier
C10_Witness ==
    /\ last.op = "set_reward_params"
    /\ last.rule = "admin"
    /\ last.shortened
    /\ reward_infos[last.req.reward_index].end_time = last.req.end_time

---------------------------------------------------------------------------
(* C11 *)

\* C11 as stated: from one state to the next, the stored last_update_time
\* of no slot decreases.
C11_Original ==
    [][\A i \in Slots :
           reward_infos'[i].last_update_time >= reward_infos[i].last_update_time]_vars

\* the step is a privileged replacement of the schedule of slot i, which had
\* not opened, by one that opens later than now
ReplacesUnopened(i) ==
    /\ last'.op = "set_reward_params"
    /\ last'.rule = "admin"
    /\ last'.branch = "finished"
    /\ last'.req.reward_index = i
    /\ reward_infos[i].open_time > now
    /\ reward_infos'[i].last_update_time = last'.req.open_time
    /\ reward_infos'[i].last_update_time > now

\* C11 amended: from one state to the next, the stored last_update_time of a
\* slot never decreases, except when a privileged caller replaces a schedule
\* that has not opened yet: it then becomes the requested open_time, which
\* is later than now but may be earlier than the open_time stored before.
C11_Amended ==
    [][\A i \in Slots :
           \/ reward_infos'[i].last_update_time >= reward_infos[i].last_update_time
           \/ ReplacesUnopened(i)]_vars

\* a privileged caller has replaced the schedule that was to open at 2 by
\* one that opens earlier
C11_Witness ==
    /\ last.op = "set_reward_params"
    /\ last.rule = "admin"
    /\ last.branch = "finished"
    /\ last.req.reward_index = 0
    /\ reward_infos[0].last_update_time < InitialRewardInfosLate[0].last_update_time

---------------------------------------------------------------------------
(* C12 *)

NotYetOpenForOwner == Fault("NotApproved", 100)

\* the request of a caller who is not privileged has passed the checks of
\* the arguments, of the authority and of the slot
ReachesOwnerGate(out) ==
    /\ ~out.admin_operator
    /\ out.fault = NoFault \/ out.fault.line >= 100

C12_OwnerGateOf(req, out) ==
    LET old == reward_infos[req.reward_index] IN
    ReachesOwnerGate(out) =>
        /\ out.fault = NotYetOpenForOwner <=> now < old.open_time
        /\ (old.open_time <= now /\ now < old.end_time) => out.rule = "normal"

\* C12: an owner's request is rejected with NotYetOpenForOwner when, and only
\* when, now < stored open_time; an owner's request on an active slot
\* (stored open_time <= now < stored end_time) is not rejected by this check
\* and is handled by the owner rule.
C12_OwnerGate == AllRuns(C12_OwnerGateOf)

---------------------------------------------------------------------------
(* C13 *)

\* a privileged request that lowers the rate of an active schedule
PrivilegedLowering(req, out) ==
    /\ out.rule = "admin" /\ out.branch = "ongoing"
    /\ req.emissions_per_second_x64
           < reward_infos[req.reward_index].emissions_per_second_x64

C13_OriginalOf(req, out) == PrivilegedLowering(req, out) => Accepted(out)

\* C13 as stated: a privileged request on an active schedule that lowers the
\* rate is accepted for every remaining time old_end_time - now and for
\* every requested end_time that passes the pre-checks.
C13_Original == AllRuns(C13_OriginalOf)

C13_AmendedOf(req, out) ==
    PrivilegedLowering(req, out) =>
        /\ out.fault # RateDecreaseTooEarly
        /\ out.fault # InvalidExtension
        /\ out.fault.err # "InvalidRewardPeriod"
        /\ Accepted(out) <=>
               /\ C5_Expected(req) <= U64_MAX
               /\ C5_Expected(req) = 0 \/ Settles(req)

\* C13 amended: a privileged request on an active schedule that lowers the
\* rate is never rejected for the remaining time old_end_time - now (no
\* grace window) nor for the requested end_time (no MIN/MAX bound on the
\* extension, which may also be negative); it is accepted if and only if
\* the funding amount of the extension fits in 64 bits and, when it is not
\* zero, the funding settles.
C13_Amended == AllRuns(C13_AmendedOf)

C13_OwnerWouldFail(req, out) ==
    LET old == reward_infos[req.reward_index] IN
    /\ PrivilegedLowering(req, out) /\ Accepted(out)
    /\ old.end_time - now >= INCREASE_EMISSIONES_PERIOD
    /\ req.end_time > old.end_time
    /\ ~ExtensionInBounds(req)

\* a privileged caller has updated an active schedule, and a privileged
\* request is accepted that lowers the rate outside the grace window with an
\* extension outside the owner's bounds
C13_Witness ==
    /\ last.op = "set_reward_params"
    /\ last.rule = "admin"
    /\ last.branch = "ongoing"
    /\ SomeRun(C13_OwnerWouldFail)

---------------------------------------------------------------------------
(* C14 *)

\* the rule has run without a fault and computed a reward amount of 0
ZeroAmount(out) == RuleReturned(out) /\ out.reward_amount = 0

C14_ZeroAmountOf(req, out) ==
    LET new == out.reward_infos[req.reward_index] IN
    ZeroAmount(out) =>
        /\ Accepted(out)
        /\ out.transfers = <<>>
        /\ committed_infos(reward_infos, out) = out.reward_infos
        /\ new.emissions_per_second_x64 = req.emissions_per_second_x64
        /\ new.end_time = req.end_time
        /\ out.branch = "finished" =>
               new.open_time = req.open_time /\ new.last_update_time = req.open_time

\* C14: when the computed funding amount is 0 the request succeeds, the
\* record is updated as requested (rate and end_time; open_time and
\* last_update_time as well when the schedule is replaced), no transfer is
\* made and no fault of the vault checks is raised, whatever accounts were
\* passed; transfer_from_user_to_pool_vault moves nothing for amount 0.
C14_ZeroAmount ==
    /\ AllRuns(C14_ZeroAmountOf)
    /\ \A acc \in RemainingAccounts :
           transfer_from_user_to_pool_vault(acc.funder, acc.vault, 0)
               = [ok |-> TRUE, transfers |-> <<>>]

\* a request whose amount was 0 took effect although the vault passed with
\* it is not the vault of the slot
C14_Witness ==
    /\ last.op = "set_reward_params"
    /\ last.reward_amount = 0
    /\ last.transfers = <<>>
    /\ last.req.accounts.vault.key # reward_infos[last.req.reward_index].token_vault
    /\ reward_infos[last.req.reward_index].end_time = last.req.end_time

---------------------------------------------------------------------------
(* C15 *)

\* the arguments of the request are refused by the pre-checks
BadArguments(req) ==
    \/ req.end_time <= req.open_time
    \/ req.open_time <= now
    \/ req.emissions_per_second_x64 = 0
    \/ req.reward_index >= REWARD_NUM

C15_PreChecksOf(req, out) ==
    /\ BadArguments(req) =>
           /\ ~Accepted(out)
           /\ out.fault.line \in {49, 52, 55, 67}
           /\ out.rule = "none"
           /\ committed_infos(reward_infos, out) = reward_infos
           /\ committed_transfers(out) = <<>>
    /\ (out.branch = "ongoing" /\ Accepted(out)) => req.open_time > now

\* C15: a request with end_time <= open_time, with open_time <= now, with a
\* rate of 0 or with a reward_index outside the slot range is rejected by
\* the pre-checks, whoever the caller and whatever the state of the slot,
\* and changes nothing; a request accepted by the active branch has
\* open_time > now.
C15_PreChecks == AllRuns(C15_PreChecksOf)

C15_RetroactiveOnActive(req, out) ==
    LET old == reward_infos[req.reward_index] IN
    /\ req.reward_index < REWARD_NUM
    /\ Classify(req.authority) = "Privileged"
    /\ req.emissions_per_second_x64 > 0
    /\ req.open_time = now
    /\ req.end_time > req.open_time
    /\ initialized(old) /\ old.open_time < now /\ now < old.end_time
    /\ out.fault = Fault("RequireGtViolated", 67)

\* an update of an active schedule with open_time > now has taken effect,
\* and the same kind of request with open_time = now is rejected
C15_Witness ==
    /\ last.op = "set_reward_params"
    /\ last.branch = "ongoing"
    /\ last.req.open_time > now
    /\ SomeRun(C15_RetroactiveOnActive)

---------------------------------------------------------------------------
(* C16 *)

UninitializedRewardSlot == Fault("UnInitializedRewardInfo", 85)

C16_UninitializedOf(req, out) ==
    ( /\ ~BadArguments(req)
      /\ Classify(req.authority) # "Unauthorized"
      /\ ~initialized(reward_infos[req.reward_index]) ) =>
        /\ out.fault = UninitializedRewardSlot
        /\ committed_infos(reward_infos, out) = reward_infos
        /\ committed_transfers(out) = <<>>

\* C16: every request on an uninitialized slot by an authorized caller with
\* otherwise valid parameters is rejected with UninitializedRewardSlot, and
\* a slot that was not initialized has every field at its default value
\* after any sequence of set_reward_params instructions.
C16_Uninitialized ==
    /\ AllRuns(C16_UninitializedOf)
    /\ \A i \in Slots :
           ~initialized(InitialRewardInfos[i]) => reward_infos[i] = DefaultRewardInfo

C16_Refused(req, out) ==
    /\ ~BadArguments(req)
    /\ Classify(req.authority) = "Privileged"
    /\ ~initialized(reward_infos[req.reward_index])
    /\ out.fault = UninitializedRewardSlot

\* after an instruction on the initialized slot has taken effect, a
\* privileged request on the uninitialized slot is refused
C16_Witness ==
    /\ last.op = "set_reward_params"
    /\ reward_infos[1] = DefaultRewardInfo
    /\ SomeRun(C16_Refused)

---------------------------------------------------------------------------
(* C17 *)

\* the vault passed is the slot's and has the mint of the funding account
VaultMatches(req, info) ==
    /\ req.accounts.vault.key = info.token_vault
    /\ req.accounts.vault.mint = req.accounts.funder.mint

VaultMismatch(fault) ==
    fault.err = "RequireKeysEqViolated" /\ fault.line \in {128, 129}

C17_VaultOf(req, out) ==
    LET old == reward_infos[req.reward_index] IN
    (RuleReturned(out) /\ out.reward_amount > 0) =>
        /\ ~VaultMatches(req, old) =>
               /\ VaultMismatch(out.fault)
               /\ committed_transfers(out) = <<>>
               /\ committed_infos(reward_infos, out) = reward_infos
        /\ committed_transfers(out) # <<>> =>
               /\ VaultMatches(req, old)
               /\ committed_transfers(out)
                      = <<[to |-> old.token_vault, amount |-> out.reward_amount]>>

\* C17: a non-zero funding transfer is made only when the vault passed is
\* the token_vault stored in the slot and its mint is the mint of the
\* caller's funding account; otherwise the request fails with VaultMismatch,
\* no tokens move and the schedule is unchanged.  Every transfer made
\* credits the computed amount to the slot's own vault.
C17_Vault == AllRuns(C17_VaultOf)

C17_WrongVault(req, out) ==
    out.reward_amount > 0 /\ out.fault = Fault("RequireKeysEqViolated", 129)

C17_WrongMint(req, out) ==
    out.reward_amount > 0 /\ out.fault = Fault("RequireKeysEqViolated", 128)

\* a transfer to the slot's vault was made, and requests that pass another
\* vault or a vault of another mint are refused
C17_Witness ==
    /\ last.op = "set_reward_params"
    /\ last.transfers
           = <<[to |-> reward_infos[last.req.reward_index].token_vault,
                amount |-> last.reward_amount]>>
    /\ SomeRun(C17_WrongVault)
    /\ SomeRun(C17_WrongMint)

---------------------------------------------------------------------------
(* C18 *)

\* the record holds the schedule of the request, last updated at its opening
IsScheduleOf(info, req) ==
    /\ info.open_time = req.open_time
    /\ info.last_update_time = req.open_time
    /\ info.end_time = req.end_time
    /\ info.emissions_per_second_x64 = req.emissions_per_second_x64

\* the scenario: the slot's schedule has ended, and an authorized caller
\* asks for one token per second over a window within the bounds, with the
\* slot's vault and a funded account
OneTokenPerSecond(req) ==
    LET old == reward_infos[req.reward_index] IN
    /\ ~BadArguments(req)
    /\ Classify(req.authority) # "Unauthorized"
    /\ initialized(old)
    /\ now >= old.end_time
    /\ req.emissions_per_second_x64 = Q64
    /\ WindowInBounds(req)
    /\ Settles(req)

C18_ReplacedOf(req, out) ==
    LET old == reward_infos[req.reward_index]
        new == out.reward_infos[req.reward_index]
    IN
    /\ (out.branch = "finished" /\ Accepted(out)) =>
           /\ IsScheduleOf(new, req)
           /\ new.token_vault = old.token_vault
           /\ new.is_initialized = old.is_initialized
    /\ OneTokenPerSecond(req) =>
           /\ out.branch = "finished" /\ Accepted(out)
           /\ out.reward_amount = req.end_time - req.open_time
           /\ IsScheduleOf(new, req)

\* C18: every request accepted by the fresh-schedule branch, for either
\* caller class, replaces the record by open_time = requested open_time,
\* last_update_time = requested open_time, end_time = requested end_time and
\* rate = requested rate; from a finished slot a request for one token per
\* second (rate 2^64) over a window within the bounds is accepted, is funded
\* with as many tokens as the window has seconds and yields that record.
C18_Replaced == AllRuns(C18_ReplacedOf)

\* the owner has replaced a finished schedule by one of one token per
\* second, funded with one token for each second of the window
C18_Witness ==
    /\ last.op = "set_reward_params"
    /\ last.rule = "normal"
    /\ last.branch = "finished"
    /\ last.req.emissions_per_second_x64 = Q64
    /\ last.reward_amount = last.req.end_time - last.req.open_time
    /\ IsScheduleOf(reward_infos[last.req.reward_index], last.req)

---------------------------------------------------------------------------
(* C19 *)

\* the scenario: the owner asks to halve the rate of an active schedule of
\* one token per second and to leave its end time where it is
HalvesRateKeepsEnd(req, out) ==
    LET old == reward_infos[req.reward_index] IN
    /\ OwnerOnActive(out)
    /\ old.emissions_per_second_x64 = Q64
    /\ 2 * req.emissions_per_second_x64 = Q64
    /\ req.end_time = old.end_time

\* the time that remains on the stored schedule
RemainingTime(req) == reward_infos[req.reward_index].end_time - now

C19_OriginalOf(req, out) ==
    (HalvesRateKeepsEnd(req, out) /\ INCREASE_EMISSIONES_PERIOD > RemainingTime(req))
        => out.fault = RateDecreaseTooEarly

C19_AmendedOf(req, out) ==
    HalvesRateKeepsEnd(req, out) =>
        /\ out.fault = InvalidExtension
        /\ committed_infos(reward_infos, out) = reward_infos
        /\ committed_transfers(out) = <<>>

C19_InGrace(req, out) ==
    /\ HalvesRateKeepsEnd(req, out)
    /\ INCREASE_EMISSIONES_PERIOD > RemainingTime(req)
    /\ out.fault = InvalidExtension

---------------------------------------------------------------------------
(* C20 *)

\* the identities on the allow-list
StoredOwners == Range(operation_owners) \ {DefaultPubkey}

\* the array holds exactly the identities of set, in ascending order, in a
\* prefix, and the default key after it
HoldsAscending(array, set) ==
    LET n == Cardinality(set) IN
    /\ DOMAIN array = 1 .. OPERATION_SIZE_USIZE
    /\ n <= OPERATION_SIZE_USIZE
    /\ { array[i] : i \in 1 .. n } = set
    /\ \A i \in 1 .. n : \A j \in 1 .. n : i < j => array[i] < array[j]
    /\ \A i \in n + 1 .. OPERATION_SIZE_USIZE : array[i] = DefaultPubkey

C20_UpdateOf(keys) ==
    LET out == update_operation_owner(operation_owners, keys)
        wanted == (StoredOwners \cup Range(keys)) \ {DefaultPubkey}
    IN  IF Cardinality(wanted) <= OPERATION_SIZE_USIZE
        THEN out.ok /\ HoldsAscending(out.owners, wanted)
        ELSE ~out.ok /\ out.owners = operation_owners

\* C20: update_operation_owner(keys) stores exactly the distinct non-default
\* identities of the allow-list and keys, in ascending order, in a prefix of
\* the array with the remainder default-filled, whenever they are at most
\* 10; when they are more than 10 the call aborts and the allow-list is
\* left unchanged.
C20_Update == \A keys \in KeyVectors : C20_UpdateOf(keys)

\* a call that would have stored more than 10 identities has aborted, after
\* calls with repeated and unordered keys had filled part of the array
C20_Witness ==
    /\ last.op = "update_operation_owner"
    /\ ~last.ok
    /\ Cardinality(StoredOwners \cup Range(last.keys)) > OPERATION_SIZE_USIZE
    /\ HoldsAscending(operation_owners, StoredOwners)
    /\ Cardinality(StoredOwners) >= 2
    /\ Cardinality(StoredOwners) < OPERATION_SIZE_USIZE

---------------------------------------------------------------------------
(* C21 *)

\* the slot of the request as the rule sees it: settled up to now
Settled(req) == update_reward_infos(reward_infos, now)[req.reward_index]

\* the stored schedule of the request's slot is finished or has not opened
FinishedOrUnopened(req) ==
    \/ Settled(req).last_update_time = Settled(req).end_time
    \/ reward_infos[req.reward_index].open_time > now

\* a privileged request with valid arguments on an initialized slot
PrivilegedRequest(req) ==
    /\ ~BadArguments(req)
    /\ Classify(req.authority) = "Privileged"
    /\ initialized(reward_infos[req.reward_index])

C21_AdminBranchOf(req, out) ==
    LET old == reward_infos[req.reward_index]
        new == out.reward_infos[req.reward_index]
    IN
    /\ PrivilegedRequest(req) => out.rule = "admin"
    /\ out.rule = "admin" =>
           /\ out.branch = "finished" <=> FinishedOrUnopened(req)
           /\ out.branch = "ongoing" <=> ~FinishedOrUnopened(req)
           /\ FinishedOrUnopened(req) <=> (now >= old.end_time \/ old.open_time > now)
           /\ (out.branch = "finished" /\ RuleReturned(out)) =>
                  /\ IsScheduleOf(new, req)
                  /\ out.reward_amount =
                         CeilOf((req.end_time - req.open_time)
                                    * req.emissions_per_second_x64, Q64)

\* C21: a privileged request is evaluated by the fresh-schedule branch
\* exactly when the stored schedule is finished (last_update_time, settled
\* to min(now, end_time), equals end_time: now >= end_time) or not yet open
\* (stored open_time > now); the stored schedule is then replaced by the
\* requested one and ceil((end_time - open_time) * rate / 2^64) is charged.
\* In every other state, now = stored open_time included, it is evaluated
\* by the active branch.
C21_AdminBranch == AllRuns(C21_AdminBranchOf)

C21_OnUnopened(req, out) ==
    LET old == reward_infos[req.reward_index] IN
    /\ out.rule = "admin" /\ out.branch = "finished" /\ Accepted(out)
    /\ old.open_time > now
    /\ old.last_update_time # old.end_time

\* a privileged caller has replaced a schedule before the clock reached any
\* opening time, and the schedule now stored, not open yet, can be replaced
\* again
C21_Witness ==
    /\ last.op = "set_reward_params"
    /\ last.rule = "admin"
    /\ last.branch = "finished"
    /\ now = 0
    /\ IsScheduleOf(reward_infos[last.req.reward_index], last.req)
    /\ SomeRun(C21_OnUnopened)

---------------------------------------------------------------------------
(* C22 *)

\* the privileged active branch ran on a request whose end_time is not
\* later than the stored one
PrivilegedNotExtending(req, out) ==
    /\ out.rule = "admin" /\ out.branch = "ongoing"
    /\ req.end_time <= reward_infos[req.reward_index].end_time

\* floor((old_end_time - now) * max(0, new_rate - old_rate) / 2^64)
RateIncreaseFunding(req) ==
    LET old == reward_infos[req.reward_index]
        diff == IF req.emissions_per_second_x64 > old.emissions_per_second_x64
                THEN req.emissions_per_second_x64 - old.emissions_per_second_x64
                ELSE 0
    IN  FloorOf((old.end_time - now) * diff, Q64)

C22_ShorteningOf(req, out) ==
    LET old == reward_infos[req.reward_index]
        new == out.reward_infos[req.reward_index]
    IN
    PrivilegedNotExtending(req, out) =>
        /\ saturating_sub(req.end_time, old.end_time) = 0
        /\ admin_extend_amount(0, req.emissions_per_second_x64) = Some(0)
        /\ RuleReturned(out) =>
               /\ out.reward_amount = RateIncreaseFunding(req)
               /\ new.end_time = req.end_time
               /\ new.emissions_per_second_x64 = req.emissions_per_second_x64
        /\ Accepted(out) =>
               /\ TransferTotal(out.transfers) = RateIncreaseFunding(req)
               /\ \A k \in DOMAIN out.transfers : out.transfers[k].to = old.token_vault

\* C22: in the privileged active branch, when the requested end_time is not
\* later than the stored end_time, extend_period is 0 and its term of the
\* funding is 0; the funding is floor((old_end_time - now) * max(0, new_rate
\* - old_rate) / 2^64) alone, tokens only ever move to the vault (nothing is
\* refunded), and the stored end_time is overwritten with the requested one.
C22_Shortening == AllRuns(C22_ShorteningOf)

\* a privileged caller has moved the end time of an active schedule to an
\* earlier time while raising its rate, and was charged for the raise alone
C22_Witness ==
    /\ last.op = "set_reward_params"
    /\ last.rule = "admin"
    /\ last.shortened
    /\ reward_infos[last.req.reward_index].end_time = last.req.end_time
    /\ last.reward_amount > 0
    /\ TransferTotal(last.transfers) = last.reward_amount

---------------------------------------------------------------------------
(* C23 *)

\* an owner's request with valid arguments on an initialized slot
OwnerRequest(req) ==
    /\ ~BadArguments(req)
    /\ Classify(req.authority) = "Owner"
    /\ initialized(reward_infos[req.reward_index])

C23_OwnerBranchOf(req, out) ==
    LET old == reward_infos[req.reward_index] IN
    /\ OwnerRequest(req) =>
           /\ (out.rule = "normal" /\ out.branch = "finished")
                  <=> now >= old.end_time
           /\ (out.rule = "normal" /\ out.branch = "ongoing")
                  <=> (old.open_time < now /\ now < old.end_time)
           /\ Settled(req).last_update_time = Min(now, old.end_time)
                  \/ now < old.open_time
    /\ (out.rule = "normal" /\ out.branch = "finished") =>
           /\ OwnerRequest(req)
           /\ SecondsToRun(old, now) = 0

\* C23: last_update_time being advanced to min(now, end_time) before the
\* rule is evaluated, an owner's request is evaluated by the fresh-schedule
\* branch exactly when now >= the stored end_time and by the active branch
\* exactly when stored open_time < now < stored end_time; the fresh branch
\* is never taken while the stored schedule still has time to run.
C23_OwnerBranch == AllRuns(C23_OwnerBranchOf)

C23_SettledFirst(req, out) ==
    LET old == reward_infos[req.reward_index] IN
    /\ out.rule = "normal" /\ out.branch = "finished" /\ Accepted(out)
    /\ old.last_update_time < old.end_time
    /\ now >= old.end_time

\* the end time of a schedule has passed while its stored last_update_time
\* is still behind it, and an owner's request is accepted by the fresh
\* branch
C23_Witness == SomeRun(C23_SettledFirst)

---------------------------------------------------------------------------
(* C24 *)

\* the funding amount of a request as a number without a width: the window
\* rounded up in the fresh branch, the two terms rounded down in the active
\* one
ExactFunding(req, out) ==
    IF out.branch = "finished"
    THEN CeilOf((req.end_time - req.open_time) * req.emissions_per_second_x64, Q64)
    ELSE C5_Expected(req)

\* the rule refused the request before it computed an amount
RefusedByGuard(out) ==
    out.fault.line \in {160, 164, 184, 185, 190, 195, 254, 256, 276}

\* the unwrap of a product that does not fit, or of the sum of the two terms
ArithmeticFault(out) ==
    /\ out.fault.err = "Panic"
    /\ out.fault.line \in {173, 211, 224, 228, 265, 290, 302, 306}

C24_OverflowOf(req, out) ==
    out.rule # "none" =>
        /\ ArithmeticFault(out) <=>
               (~RefusedByGuard(out) /\ ExactFunding(req, out) > U64_MAX)
        /\ ArithmeticFault(out) =>
               /\ committed_infos(reward_infos, out) = reward_infos
               /\ committed_transfers(out) = <<>>
        /\ RuleReturned(out) =>
               /\ out.reward_amount = ExactFunding(req, out)
               /\ out.reward_amount <= U64_MAX
        /\ Accepted(out) => TransferTotal(out.transfers) = ExactFunding(req, out)

\* C24: if a funding computation (either product term, or the sum of the
\* two terms) does not fit in an unsigned 64-bit integer, the request aborts
\* with an arithmetic fault and the record is unchanged; the amount a rule
\* returns, and the amount transferred, is the exact one, never one
\* truncated or wrapped modulo 2^64.
C24_Overflow == AllRuns(C24_OverflowOf)

C24_SumOverflows(req, out) ==
    LET old == reward_infos[req.reward_index] IN
    /\ out.rule = "admin" /\ out.branch = "ongoing"
    /\ out.fault = Fault("Panic", 306)
    /\ RateIncreaseFunding(req) <= U64_MAX
    /\ FloorOf((req.end_time - old.end_time) * req.emissions_per_second_x64, Q64)
           <= U64_MAX
    /\ ExactFunding(req, out) > U64_MAX

C24_ProductOverflows(req, out) ==
    /\ out.rule = "admin" /\ out.branch = "ongoing"
    /\ out.fault = Fault("Panic", 302)
    /\ ExactFunding(req, out) > U64_MAX

\* an update has taken effect, and in the state it left a request whose two
\* terms fit but whose sum does not, and a request whose extension term
\* does not fit, abort
C24_Witness ==
    /\ last.op = "set_reward_params"
    /\ SomeRun(C24_SumOverflows)
    /\ SomeRun(C24_ProductOverflows)

---------------------------------------------------------------------------
(* C25 *)

\* the request with another open_time
WithOpenTime(req, open_time) == [req EXCEPT !.open_time = open_time]

\* the rule returned from its active branch
ActiveReturned(out) == out.branch = "ongoing" /\ RuleReturned(out)

C25_OpenTimeOf(req, out) ==
    LET old == reward_infos[req.reward_index]
        new == out.reward_infos[req.reward_index]
    IN
    ActiveReturned(out) =>
        /\ new.open_time = old.open_time
        /\ new.last_update_time = Settled(req).last_update_time
        /\ \A o \in now .. now + MaxOpenAhead :
               \A other \in {Run(WithOpenTime(req, o))} :
                   ActiveReturned(other) =>
                       /\ other.reward_infos = out.reward_infos
                       /\ other.reward_amount = out.reward_amount
                       /\ other.fault = out.fault
                       /\ other.transfers = out.transfers

\* C25: in the active branch of either rule the stored open_time is left
\* unchanged and last_update_time keeps the value settled before the rule
\* ran; two requests that differ only in open_time and are both evaluated
\* by the active branch produce the same record, the same funding amount
\* and the same outcome.
C25_OpenTime == \A req \in RequestsAhead(now) : C25_OpenTimeOf(req, Run(req))

C25_TwoOpenTimes(req) ==
    /\ req.open_time = now + 1
    /\ Accepted(Run(req)) /\ Run(req).branch = "ongoing"
    /\ Accepted(Run(WithOpenTime(req, now + 2)))
    /\ Run(WithOpenTime(req, now + 2)).reward_infos = Run(req).reward_infos
    /\ Run(req).reward_amount > 0

\* an update of an active schedule has taken effect whose open_time was two
\* seconds ahead and differs from the stored one, and two requests that
\* differ only in open_time are both accepted with the same record
C25_Witness ==
    /\ last.op = "set_reward_params"
    /\ last.branch = "ongoing"
    /\ last.req.open_time = now + 2
    /\ reward_infos[last.req.reward_index].open_time < now
    /\ \E req \in RequestsAhead(now) : C25_TwoOpenTimes(req)

---------------------------------------------------------------------------
(* C26 *)

\* the step is an update that the owner rule accepted
OwnerUpdateStep ==
    /\ last' # last
    /\ last'.op = "set_reward_params"
    /\ last'.rule = "normal"

\* the step is an update that the privileged rule accepted
PrivilegedUpdateStep ==
    /\ last'.op = "set_reward_params"
    /\ last'.rule = "admin"
    /\ reward_infos' # reward_infos

C26_Step ==
    /\ OwnerUpdateStep =>
           LET i == last'.req.reward_index
               old_end_time == reward_infos[i].end_time
               new_end_time == reward_infos'[i].end_time
           IN  /\ new_end_time > old_end_time
               /\ new_end_time = last'.req.end_time
               /\ last'.branch = "ongoing" =>
                      new_end_time - old_end_time >= MIN_REWARD_PERIOD
               /\ last'.branch = "finished" =>
                      now >= old_end_time /\ new_end_time > now
    /\ ~PrivilegedUpdateStep =>
           \A i \in Slots : reward_infos'[i].end_time >= reward_infos[i].end_time

\* C26: every accepted owner update strictly increases the stored end_time
\* of its slot: by at least MIN_PERIOD in the active branch, and to a value
\* later than now >= old end_time in the fresh branch; in every step that
\* is not a privileged update no stored end_time decreases.
C26_EndTimeGrows == [][C26_Step]_vars

\* the owner has extended a schedule whose end time now stands at least two
\* minimum periods after the initial one
C26_Witness ==
    /\ last.op = "set_reward_params"
    /\ last.rule = "normal"
    /\ last.branch = "ongoing"
    /\ reward_infos[0].end_time = last.req.end_time
    /\ reward_infos[0].end_time
           >= InitialRewardInfos[0].end_time + 2 * MIN_REWARD_PERIOD

---------------------------------------------------------------------------
(* C27 *)

C27_RemainingTimeOf(req, out) ==
    LET old == reward_infos[req.reward_index] IN
    out.branch = "ongoing" =>
        /\ now < old.end_time
        /\ Settled(req).end_time = old.end_time
        /\ checked_sub(Settled(req).end_time, now) = Some(old.end_time - now)
        /\ out.fault # Fault("Panic", 184)
        /\ out.fault # Fault("Panic", 276)

\* C27: whenever the active branch of either rule is evaluated, now is
\* earlier than the stored end_time, so the remaining time old_end_time -
\* now is positive and its checked subtraction never aborts the request.
C27_RemainingTime == AllRuns(C27_RemainingTimeOf)

C27_LastSecond(req, out) ==
    LET old == reward_infos[req.reward_index] IN
    /\ out.branch = "ongoing" /\ Accepted(out)
    /\ old.end_time = now + 1
    /\ old.last_update_time < now

\* in the last second of a schedule, whose stored last_update_time is
\* behind the clock, the active branch accepts a request
C27_Witness == SomeRun(C27_LastSecond)

---------------------------------------------------------------------------
(* C28 *)

\* the schedule of a slot: its rate, its opening and its end
ScheduleOf(info) ==
    <<info.emissions_per_second_x64, info.open_time, info.end_time>>

C28_Step ==
    /\ \A j \in Slots :
           /\ reward_infos'[j].token_vault = reward_infos[j].token_vault
           /\ reward_infos'[j].is_initialized = reward_infos[j].is_initialized
    /\ last'.op = "set_reward_params" =>
           \A j \in Slots \ {last'.req.reward_index} :
               /\ ScheduleOf(reward_infos'[j]) = ScheduleOf(reward_infos[j])
               /\ reward_infos'[j] \in
                      {reward_infos[j], update_reward_infos(reward_infos, now)[j]}

\* C28: an accepted update of slot i never changes the token_vault of that
\* slot, and never changes the emissions rate, the open_time or the
\* end_time of another slot of the pool (whose last_update_time alone is
\* settled).
C28_Frame == [][C28_Step]_vars

\* slot 1 has just been given a fresh schedule, slot 0 holds a schedule that
\* an earlier update gave it, and each slot still has its own vault
C28_Witness ==
    /\ last.op = "set_reward_params"
    /\ last.req.reward_index = 1
    /\ last.branch = "finished"
    /\ IsScheduleOf(reward_infos[1], last.req)
    /\ ScheduleOf(reward_infos[0]) # ScheduleOf(InitialRewardInfosBoth[0])
    /\ ScheduleOf(reward_infos[0]) # ScheduleOf(reward_infos[1])
    /\ reward_infos[0].token_vault = InitialRewardInfosBoth[0].token_vault
    /\ reward_infos[1].token_vault = InitialRewardInfosBoth[1].token_vault

---------------------------------------------------------------------------
(* C29 *)

\* the identities an array holds: the abstract allow-list it stands for
OwnersOf(array) == Range(array) \ {DefaultPubkey}

\* the identities that validate_operation_owner accepts
Validated(array) ==
    { k \in 0 .. MaxKey : validate_operation_owner(array, k) }

\* the array is a faithful representation of the identities it holds
Faithful(array) ==
    /\ HoldsAscending(array, OwnersOf(array))
    /\ Validated(array) = OwnersOf(array)
    /\ ~ validate_operation_owner(array, DefaultPubkey)

\* the step adds the non-default keys of an accepted update to the
\* allow-list, removes the keys of a removal from it, and leaves it as it
\* was when the update aborted
C29_Step ==
    LET before == OwnersOf(operation_owners)
        after == OwnersOf(operation_owners')
        keys == Range(last'.keys)
    IN  /\ Faithful(operation_owners')
        /\ (last'.op = "update_operation_owner" /\ last'.ok) =>
               /\ after = before \cup (keys \ {DefaultPubkey})
               /\ Validated(operation_owners') = after
        /\ (last'.op = "update_operation_owner" /\ ~last'.ok) =>
               /\ operation_owners' = operation_owners
               /\ Cardinality(before \cup (keys \ {DefaultPubkey}))
                      > OPERATION_SIZE_USIZE
        /\ last'.op = "remove_operation_owner" =>
               /\ after = before \ keys
               /\ \A k \in keys : ~ validate_operation_owner(operation_owners', k)
               /\ Validated(operation_owners') = Validated(operation_owners) \ keys

\* C29: starting from initialize, after any sequence of
\* update_operation_owner and remove_operation_owner calls the stored array
\* represents the set of the identities added and not removed since: its
\* non-default entries are pairwise distinct, ascending, at most 10 and form
\* a prefix followed only by default entries, and validate_operation_owner
\* is true exactly for the identities of that set, never for the default
\* identity and never for a removed one.
C29_Faithful == Faithful(operation_owners) /\ [][C29_Step]_vars

\* an identity has been removed from the middle of a full array, and the
\* nine that remain fill a prefix
C29_Witness ==
    /\ last.op = "remove_operation_owner"
    /\ 2 \in Range(last.keys)
    /\ OwnersOf(operation_owners) = (1 .. OPERATION_SIZE_USIZE) \ {2}
    /\ operation_owners[2] = 3
    /\ operation_owners[OPERATION_SIZE_USIZE] = DefaultPubkey

---------------------------------------------------------------------------
(* C30 *)

\* no identity is on the allow-list: no request is privileged
NoOperators == OwnersOf(operation_owners) = {}

\* some request of the pool owner is accepted now
OwnerCanUpdate ==
    \E req \in RequestsLive(now) :
        Classify(req.authority) = "Owner" /\ Accepted(Run(req))

\* slot 0 is initialized and no privileged update can intervene any more
OwnerAlone == initialized(reward_infos[0]) /\ NoOperators

EndWithinClock == reward_infos[0].end_time <= MaxNow

---------------------------------------------------------------------------
(* C31 *)

\* the fresh-schedule branch of a rule returned a reward amount
FreshReturned(out) == RuleReturned(out) /\ out.branch = "finished"

\* the windows and rates that pass the checks of the arguments (lines 52, 55)
PositiveWindows == 1 .. MaxTime
PositiveRates == 1 .. MaxRate

C31_NonZeroOf(req, out) ==
    /\ FreshReturned(out) => out.reward_amount >= 1
    /\ (Accepted(out) /\ out.branch = "finished") =>
           /\ out.transfers # <<>>
           /\ TransferTotal(committed_transfers(out)) = out.reward_amount
           /\ TransferTotal(committed_transfers(out)) >= 1
    /\ (Accepted(out) /\ out.transfers = <<>>) =>
           /\ out.branch = "ongoing"
           /\ out.reward_amount = 0

\* C31: the fresh-schedule branch never yields a funding amount of 0.  The
\* amount either rule computes for a positive window and a positive rate is
\* at least 1 whenever it is computed at all; every accepted fresh schedule,
\* of the owner or of a privileged caller, moves at least 1 token to the
\* vault; and a request accepted without a transfer went through the active
\* branch.
C31_NonZero ==
    /\ AllRuns(C31_NonZeroOf)
    /\ \A time_delta \in PositiveWindows : \A rate \in PositiveRates :
           /\ normal_new_period_amount(time_delta, rate).some =>
                  normal_new_period_amount(time_delta, rate).val >= 1
           /\ admin_new_period_amount(time_delta, rate).some =>
                  admin_new_period_amount(time_delta, rate).val >= 1

\* a fresh schedule that emits less than one token over its whole window
\* has taken effect, and one token was moved to the vault for it
C31_Witness ==
    /\ last.op = "set_reward_params"
    /\ last.branch = "finished"
    /\ (last.req.end_time - last.req.open_time) * last.req.emissions_per_second_x64 < Q64
    /\ last.reward_amount = 1
    /\ TransferTotal(last.transfers) = 1
    /\ IsScheduleOf(reward_infos[last.req.reward_index], last.req)

====
